---- MODULE Spec2Model ----
(***************************************************************************)
(* Model of src/gamma.py: quick_gain (per-pixel peak search, Gaussian fit  *)
(* outcome, two interpolation passes) and get_spectrum (gain padding,      *)
(* validity window, per-event energy reconstruction).                      *)
(*                                                                         *)
(* Conventions.  Array indices are 0-based as in Python; the event table   *)
(* 'data' is a TLA+ sequence, so the event with Python index k is          *)
(* data[k + 1].  2-D arrays are functions of the row index whose values    *)
(* are functions of the column index: gain[y][x] is numpy's gain[y, x].    *)
(* Gains are exact rationals with denominator GainScale, held as integers: *)
(* the integer g stands for the gain g / GainScale keV per channel.        *)
(* The Levenberg-Marquardt fitter is an external routine; its result is a  *)
(* choice among FitterOutcomes.                                            *)
(***************************************************************************)
EXTENDS Integers, Sequences, FiniteSets, TLC

VARIABLES
    call,         \* the function that runs: "quick_gain" or "get_spectrum"
    data,         \* the event table of the file
    line,         \* quick_gain's Line argument
    pc,           \* where the function is: "start", "fit", "interp",
                  \* "events", "done", "error"
    err,          \* the exception that ended the function, "" if none
    START, END,   \* the validity window
    x,            \* quick_gain: the column of 'for x in range(32)'
    gain,         \* quick_gain: its gain array; get_spectrum: the caller's
    newgain,      \* quick_gain: the padded copy of the current pass
    pass,         \* quick_gain: interpolation passes done
    fitlog,       \* quick_gain: one entry per call of the fitter
    gain_buffed,  \* get_spectrum: the padded gain
    event,        \* get_spectrum: index of the event of 'for event in ...'
    energies,     \* get_spectrum: the list 'energies'
    read          \* indices of the events whose fields the loops have read

vars == <<call, data, line, pc, err, START, END, x, gain, newgain, pass,
          fitlog, gain_buffed, event, energies, read>>

----------------------------------------------------------------------------
(* Program constants *)

\* gain = np.zeros((32, 32))
N == 32
\* newgain = np.zeros((34, 34)) ; gain_buffed = np.zeros((34, 34))
PadN == 34
\* maxchannel = 10000
maxchannel == 10000
\* mask = data['TEMP'] > -20
TempMin == -20
\* for _ in range(2)
Passes == 2

(* Bounds of the model *)

\* longest event table of the general specification
MaxEvents == 2
\* longest event table of the validity-window specification
MaxMaskLen == 6

\* denominator of the gains: two passes of means over 1..8 nonzero
\* neighbours stay exact
GainScale == 840 * 840

Rows == 0 .. (N - 1)
PadRows == 0 .. (PadN - 1)

----------------------------------------------------------------------------
(* numpy helpers *)

\* np.zeros((n, n))
Zeros(n) == [r \in 0 .. (n - 1) |-> [c \in 0 .. (n - 1) |-> 0]]

\* np.argmax(s): the 0-based index of the first maximal element
ArgMax(s) ==
    CHOOSE i \in 0 .. (Len(s) - 1) :
        /\ \A j \in 0 .. (Len(s) - 1) : s[j + 1] <= s[i + 1]
        /\ \A j \in 0 .. (i - 1) : s[j + 1] < s[i + 1]

\* s[::-1]
Reverse(s) == [k \in 1 .. Len(s) |-> s[Len(s) + 1 - k]]

\* the integer value numpy gives a boolean in argmax
BoolInt(b) == IF b THEN 1 ELSE 0

\* the indices a[lo:hi] selects in an array of length len (Python slicing)
SliceBound(b, len) ==
    IF b < 0 THEN (IF b + len < 0 THEN 0 ELSE b + len)
    ELSE (IF b > len THEN len ELSE b)

SliceIndices(lo, hi, len) == SliceBound(lo, len) .. (SliceBound(hi, len) - 1)

----------------------------------------------------------------------------
(* The validity window (quick_gain 602-605, get_spectrum 777-779) *)

\* mask = data['TEMP'] > -20
TempMask(d) == [k \in 1 .. Len(d) |-> BoolInt(d[k].TEMP > TempMin)]

\* START = np.argmax(mask)
WindowStart(d) == ArgMax(TempMask(d))

\* the window end without the reversal of the mask
WindowEndUnreversed(d) == Len(d) - ArgMax(TempMask(d))

\* END = len(mask) - np.argmax(mask[::-1])
WindowEnd(d) == Len(d) - ArgMax(Reverse(TempMask(d)))

----------------------------------------------------------------------------
(* quick_gain: the per-pixel peak search and fit (607-641) *)

\* data[START:END]
WindowSeq(d, s, e) == SubSeq(d, s + 1, e)

\* channel = data.field('PH')[START:END][np.nonzero(RAWXmask * (RAWY == y))]
PixelChannel(d, s, e, px, py) ==
    LET sel == SelectSeq(WindowSeq(d, s, e),
                         LAMBDA ev : ev.RAWX = px /\ ev.RAWY = py)
    IN  [k \in 1 .. Len(sel) |-> sel[k].PH]

\* bins = np.arange(1, maxchannel): edge k of the histogram
BinEdge(k) == k + 1

\* number of bins of np.histogram(channel, bins=bins)
SpectrumLen == maxchannel - 2

\* np.histogram: bin i holds BinEdge(i) <= v < BinEdge(i + 1); the last bin
\* also holds its right edge
InBin(v, i) ==
    /\ i \in 0 .. (SpectrumLen - 1)
    /\ \/ BinEdge(i) <= v /\ v < BinEdge(i + 1)
       \/ i = SpectrumLen - 1 /\ v = BinEdge(i + 1)

\* spectrum[i] of spectrum, edges = np.histogram(channel, bins=bins, ...)
SpectrumAt(channel, i) ==
    Cardinality({k \in 1 .. Len(channel) : InBin(channel[k], i)})

\* spectrum[line.chan_low:line.chan_high]
SearchSlice(channel, ln) ==
    LET idx == SliceIndices(ln.chan_low, ln.chan_high, SpectrumLen)
        lo  == SliceBound(ln.chan_low, SpectrumLen)
    IN  [k \in 1 .. Cardinality(idx) |-> SpectrumAt(channel, lo + k - 1)]

\* centroid = np.argmax(spectrum[line.chan_low:line.chan_high]) + line.chan_low
Centroid(channel, ln) == ArgMax(SearchSlice(channel, ln)) + ln.chan_low

\* line.energy / g.mean, as a multiple of 1 / GainScale
GainOf(energy, mean) == (energy * GainScale) \div mean

\* the gain stored with the two indices exchanged
StoreGainTransposed(g, px, py, v) == [g EXCEPT ![px][py] = v]

\* gain[y, x] = v
StoreGain(g, px, py, v) == [g EXCEPT ![py][px] = v]

\* what fit_g(g_init, fit_channels, spectrum[fit_channels]) can do: return a
\* model with fit_info['param_cov'] set ("cov") or None ("nocov"), or raise
FitMeans == {4, -4}

\* the fitted stddev and the diagonal of fit_info['param_cov'] (the
\* variances of amplitude, mean and stddev) of a fit that returns one
FitterOutcomes ==
    {[kind |-> "cov", mean |-> m, stddev |-> 3, diag |-> <<1, 4, 9>>] :
        m \in FitMeans}
        \cup {[kind |-> "nocov", mean |-> 0, stddev |-> 0, diag |-> <<>>],
              [kind |-> "raise", mean |-> 0, stddev |-> 0, diag |-> <<>>]}

\* sigma_err = np.diag(fit_g.fit_info['param_cov'])[2]
SigmaErr(oc) == oc.diag[3]

\* mean_err = np.diag(fit_g.fit_info['param_cov'])[1]
MeanErr(oc) == oc.diag[2]

\* 646-649, run for every fit with a covariance (save_plot is True unless
\* the caller says otherwise):
\*   fwhm_err = 2 * sqrt(2 * ln 2) * sigma_err
\*   frac_err = sqrt(fwhm_err^2 + (g.fwhm * mean_err / g.mean)^2) / g.mean
\* with g.fwhm = 2 * sqrt(2 * ln 2) * g.stddev.  frac_err is not rational:
\* the value here is the integer frac_err^2 * g.mean^4 / (8 * ln 2), which
\* is sigma_err^2 * g.mean^2 + (g.stddev * mean_err)^2; frac_err has the
\* sign of g.mean, so two computations for the same g.mean give the same
\* frac_err exactly when they give the same value here
FracErrSq(oc) ==
    SigmaErr(oc) * SigmaErr(oc) * oc.mean * oc.mean
        + (oc.stddev * MeanErr(oc)) * (oc.stddev * MeanErr(oc))

\* one iteration of 'for y in range(32)' for pixel (px, py); st holds the
\* gain array, the fits made so far and the exception raised, if any
FitPixel(st, px, py, oc) ==
    LET channel == PixelChannel(data, START, END, px, py) IN
    IF Len(channel) = 0 THEN st
    ELSE IF SliceIndices(line.chan_low, line.chan_high, SpectrumLen) = {}
    THEN [st EXCEPT !.err = "ValueError"]
    ELSE
      LET centroid == Centroid(channel, line)
          entry == [x |-> px, y |-> py, centroid |-> centroid,
                    amplitude |-> SpectrumAt(channel, centroid),
                    kind |-> oc.kind, mean |-> oc.mean,
                    stddev |-> oc.stddev, diag |-> oc.diag,
                    frac_err |-> IF oc.kind = "cov" THEN FracErrSq(oc) ELSE 0]
      IN  IF centroid + 199 >= SpectrumLen \/ centroid - 100 < -SpectrumLen
          THEN [st EXCEPT !.err = "IndexError"]
          ELSE IF oc.kind = "raise"
          THEN [st EXCEPT !.err = "FitterError", !.log = @ \cup {entry}]
          ELSE IF oc.kind = "cov"
          THEN [st EXCEPT !.gain = StoreGain(@, px, py,
                                                  GainOf(line.energy, oc.mean)),
                          !.log = @ \cup {entry}]
          ELSE [st EXCEPT !.log = @ \cup {entry}]

\* the rows y of column px for which 'if len(channel)' holds: the rows of
\* the events of the window with RAWX = px
RowsWithEvents(px) ==
    {data[k + 1].RAWY : k \in {j \in START .. (END - 1) : data[j + 1].RAWX = px}}
        \cap Rows

\* 'for y in range(32)' from row py on; the body does nothing for a row
\* without events, so the loop goes from one row with events to the next;
\* an exception ends it
RECURSIVE FitColumn(_, _, _, _)
FitColumn(st, px, py, ocs) ==
    LET rest == {r \in DOMAIN ocs : r >= py} IN
    IF rest = {} \/ st.err # "" THEN st
    ELSE LET r == CHOOSE r \in rest : \A q \in rest : r <= q
         IN  FitColumn(FitPixel(st, px, r, ocs[r]), px, r + 1, ocs)

----------------------------------------------------------------------------
(* quick_gain: the interpolation passes (681-695) *)

\* the gain copied to the corner of the padded array:
\* newgain[0:32, 0:32] = gain
PadAtOrigin(g) ==
    [r \in PadRows |-> [c \in PadRows |->
        IF r \in Rows /\ c \in Rows THEN g[r][c] ELSE 0]]

\* newgain = np.zeros((34, 34)); newgain[1:33, 1:33] = gain
Pad(g) ==
    [r \in PadRows |-> [c \in PadRows |->
        IF r \in 1 .. N /\ c \in 1 .. N THEN g[r - 1][c - 1] ELSE 0]]

\* a row of np.zeros((34, 34))
ZeroRow == [c \in PadRows |-> 0]

\* the block cut one short in both directions: a[r:r+2, c:c+2]
BlockShort(a, r, c) ==
    [i \in 0 .. 2 |-> [j \in 0 .. 2 |->
        IF i = 2 \/ j = 2 THEN 0 ELSE a[r + i][c + j]]]

\* a[r:r+3, c:c+3]
Block(a, r, c) == [i \in 0 .. 2 |-> [j \in 0 .. 2 |-> a[r + i][c + j]]]

\* the (row, column) indices that a[r:r+3, c:c+3] reads
BlockIndices(r, c) == (r .. (r + 2)) \X (c .. (c + 2))

\* np.count_nonzero(temp)
NonzeroInt(v) == IF v # 0 THEN 1 ELSE 0

CountNonzero(t) ==
    NonzeroInt(t[0][0]) + NonzeroInt(t[0][1]) + NonzeroInt(t[0][2])
        + NonzeroInt(t[1][0]) + NonzeroInt(t[1][1]) + NonzeroInt(t[1][2])
        + NonzeroInt(t[2][0]) + NonzeroInt(t[2][1]) + NonzeroInt(t[2][2])

\* np.sum(temp)
Sum9(t) == t[0][0] + t[0][1] + t[0][2] + t[1][0] + t[1][1] + t[1][2]
            + t[2][0] + t[2][1] + t[2][2]

\* the mean taken over the nine cells of the block
InterpPixelOverNine(old, temp) ==
    IF CountNonzero(temp) # 0
    THEN Sum9(temp) \div 9
    ELSE old

\* the body of 'for x in empty' for a pixel whose 3x3 block of newgain is
\* temp: the value gain[x[0], x[1]] has after it, old being the value before
InterpPixel(old, temp) ==
    IF CountNonzero(temp) # 0
    THEN Sum9(temp) \div CountNonzero(temp)
    ELSE old

\* a pass that visits every pixel, not only those of 'empty'
InterpPassEveryPixel(g, ng) ==
    [r \in Rows |-> [c \in Rows |-> InterpPixel(g[r][c], Block(ng, r, c))]]

\* a pass whose visits see the fills of the pass: the rule applied to the
\* map already filled from the values at the start
InterpPassSeeingFills(g, ng) ==
    LET once == CHOOSE v \in {[r \in Rows |-> [c \in Rows |->
                    IF g[r][c] = 0 THEN InterpPixel(g[r][c], Block(ng, r, c))
                    ELSE g[r][c]]]} : TRUE
        padded == CHOOSE v \in {Pad(once)} : TRUE
    IN  [r \in Rows |-> [c \in Rows |->
            IF once[r][c] = 0
            THEN InterpPixel(once[r][c], Block(padded, r, c))
            ELSE once[r][c]]]

\* one iteration of 'for _ in range(2)': empty lists the zero entries of the
\* gain at the start of the pass; each is visited once and reads newgain only
\* (where the three rows of newgain a row's blocks lie in are all zero, no
\* block of the row has a nonzero entry and the row is left as it is)
InterpPass(g, ng) ==
    [r \in Rows |->
        IF ng[r] = ZeroRow /\ ng[r + 1] = ZeroRow /\ ng[r + 2] = ZeroRow
        THEN g[r]
        ELSE [c \in Rows |->
                IF g[r][c] = 0 THEN InterpPixel(g[r][c], Block(ng, r, c))
                ELSE g[r][c]]]

\* 'for x in empty' visit by visit.  One visit: pixel (r, c) is in 'empty'
\* when it was 0 at the start of the pass (ng is the padded copy made then);
\* the visit reads its block of ng and writes gain[x[0], x[1]]
Visit(g, ng, r, c) ==
    IF ng[r + 1][c + 1] = 0
    THEN [g EXCEPT ![r][c] = InterpPixel(@, Block(ng, r, c))]
    ELSE g

\* the visits of the pixels of row r in the columns cs[k], cs[k + 1], ...
\* (an operator's argument is computed when it is first used: the test of
\* the domain of g has each map computed before the next visit is made)
RECURSIVE VisitRow(_, _, _, _, _)
VisitRow(g, ng, r, cs, k) ==
    IF k > Len(cs) \/ DOMAIN g # Rows THEN g
    ELSE VisitRow(Visit(g, ng, r, cs[k]), ng, r, cs, k + 1)

\* the visits of the rows rs[k], rs[k + 1], ..., each in the column order cs
RECURSIVE VisitRows(_, _, _, _, _)
VisitRows(g, ng, rs, cs, k) ==
    IF k > Len(rs) \/ DOMAIN g # Rows THEN g
    ELSE VisitRows(VisitRow(g, ng, rs[k], cs, 1), ng, rs, cs, k + 1)

----------------------------------------------------------------------------
(* get_spectrum: the gain argument (764-768) *)

\* the caller's array made to be the padded one
CallerArrayRebound(g, gb) == gb

\* the caller's array after 764-768, g being the array passed in and gb the
\* padded one: 'gain_buffed[1:33, 1:33] = gain' reads g and writes gb, and
\* 'gain = gain_buffed' binds the parameter name to gb, which the caller
\* does not see
CallerArray(g, gb) == g

----------------------------------------------------------------------------
(* get_spectrum: the per-event energy (786-797) *)

\* event['PH_COM'].reshape(3, 3)
Reshape(v) == [r \in 0 .. 2 |-> [c \in 0 .. 2 |-> v[3 * r + c + 1]]]

\* mask = (temp > 0).astype(int)
PositiveMask(t) ==
    [r \in 0 .. 2 |-> [c \in 0 .. 2 |-> IF t[r][c] > 0 THEN 1 ELSE 0]]

\* np.multiply(a, b) of two 3x3 arrays
Multiply(a, b) == [r \in 0 .. 2 |-> [c \in 0 .. 2 |-> a[r][c] * b[r][c]]]

\* gain[row:row + 3, col:col + 3] with row = event['RAWY'],
\* col = event['RAWX'] and gain the padded array
GainBlock(gb, ev) == Block(gb, ev.RAWY, ev.RAWX)

\* np.sum(np.multiply(np.multiply(mask, temp), gain[row:row+3, col:col+3]))
EventEnergy(gb, ev) ==
    LET temp == Reshape(ev.PH_COM)
    IN  Sum9(Multiply(Multiply(PositiveMask(temp), temp), GainBlock(gb, ev)))

\* np.histogram(energies, bins=bins, range=energy_range) with the default
\* energy_range = (0.01, 120): an energy e, a multiple of 1 / GainScale, is
\* counted, in one bin, when 0.01 <= e <= 120 and in none otherwise
InEnergyRange(e) == GainScale <= 100 * e /\ e <= 120 * GainScale

----------------------------------------------------------------------------
(* Inputs *)

Temps == {TempMin, 20}
Pixels == {<<29, 30>>, <<31, 31>>}

\* (PH, STIM): a photon event, a stimulated event, an event without a
\* positive pulse height
Kinds == {<<4, 0>>, <<4, 1>>, <<0, 0>>}

\* PH_COM with the event's charge in the centre cell only
CentreCharge(ph) == <<0, 0, 0, 0, ph, 0, 0, 0, 0>>

Event(t, p, k) ==
    [TEMP |-> t, RAWX |-> p[1], RAWY |-> p[2], PH |-> k[1], STIM |-> k[2],
     PH_COM |-> CentreCharge(k[1])]

\* events of every kind at a valid temperature, photon events at an invalid
\* one
GainEvents ==
    {Event(20, p, k) : p \in Pixels, k \in Kinds}
        \cup {Event(TempMin, p, <<4, 0>>) : p \in Pixels}

\* PH_COM patterns: one positive cell, charge shared with negative cells,
\* charge shared by the corner cells
Charges == {<<0, 0, 0, 0, 4, 0, 0, 0, 0>>,
            <<0, -1, 0, 2, 4, 0, 0, -2, 0>>,
            <<3, 0, 0, 0, 4, 0, 0, 0, 1>>}
SpectrumPixels == {<<0, 0>>, <<31, 31>>, <<29, 30>>}

SpectrumEvent(t, p, q) ==
    [TEMP |-> t, RAWX |-> p[1], RAWY |-> p[2], PH |-> 4, STIM |-> 0,
     PH_COM |-> q]

\* events of every charge pattern at a valid temperature, single-pixel
\* events at an invalid one
SpectrumEvents ==
    {SpectrumEvent(20, p, q) : p \in SpectrumPixels, q \in Charges}
        \cup {SpectrumEvent(TempMin, p, CentreCharge(4)) : p \in SpectrumPixels}

\* the events of the validity-window specification differ in TEMP only
WindowEvents ==
    {[TEMP |-> t, RAWX |-> 31, RAWY |-> 31, PH |-> 4, STIM |-> 0,
      PH_COM |-> CentreCharge(4)] : t \in Temps}

Tables(evs, n) == UNION {[1 .. k -> evs] : k \in 0 .. n}

GoodLine == [source |-> "low", energy |-> 60, chan_low |-> 3, chan_high |-> 5]
Lines == {GoodLine,
          [source |-> "bad", energy |-> 60, chan_low |-> 5, chan_high |-> 3]}

\* gain arrays a caller hands to get_spectrum: every gain 1, and gains that
\* differ from pixel to pixel with zeros left by quick_gain
GainMaps ==
    {[r \in Rows |-> [c \in Rows |-> GainScale]],
     [r \in Rows |-> [c \in Rows |->
        IF r = c THEN 0 ELSE GainScale * (1 + ((r + 2 * c) % 3))]]}

----------------------------------------------------------------------------
(* The state machine *)

InitLocals ==
    /\ pc = "start"
    /\ err = ""
    /\ START = 0
    /\ END = 0
    /\ x = 0
    /\ newgain = <<>>
    /\ pass = 0
    /\ fitlog = {}
    /\ gain_buffed = <<>>
    /\ event = 0
    /\ energies = <<>>
    /\ read = {}

\* a call of quick_gain(filepath, line) or of get_spectrum(filepath, gain)
InitCall(gainTables, spectrumTables) ==
    \/ /\ call = "quick_gain"
       /\ data \in gainTables
       /\ line \in Lines
       /\ gain = Zeros(N)
    \/ /\ call = "get_spectrum"
       /\ data \in spectrumTables
       /\ line = GoodLine
       /\ gain \in GainMaps

Init ==
    /\ InitCall(Tables(GainEvents, MaxEvents), Tables(SpectrumEvents, MaxEvents))
    /\ InitLocals

InitWindow ==
    /\ InitCall(Tables(WindowEvents, MaxMaskLen), Tables(WindowEvents, MaxMaskLen))
    /\ InitLocals

\* quick_gain 598-609: read the table, find the window, allocate the gain
QgLoad ==
    /\ call = "quick_gain"
    /\ pc = "start"
    /\ IF Len(data) = 0
       THEN /\ pc' = "error"
            /\ err' = "ValueError"
            /\ UNCHANGED <<START, END>>
       ELSE /\ pc' = "fit"
            /\ START' = WindowStart(data)
            /\ END' = WindowEnd(data)
            /\ UNCHANGED err
    /\ gain' = Zeros(N)
    /\ x' = 0
    /\ UNCHANGED <<call, data, line, newgain, pass, fitlog, gain_buffed,
                   event, energies, read>>

\* quick_gain 612-641: one iteration of 'for x in range(32)'
QgFitColumn ==
    /\ call = "quick_gain"
    /\ pc = "fit"
    /\ \E ocs \in [RowsWithEvents(x) -> FitterOutcomes] :
         LET st == FitColumn([gain |-> gain, log |-> fitlog, err |-> ""],
                             x, 0, ocs)
         IN  /\ gain' = st.gain
             /\ fitlog' = st.log
             /\ err' = st.err
             /\ IF st.err # "" THEN pc' = "error" /\ x' = x
                ELSE /\ x' = x + 1
                     /\ pc' = IF x + 1 = N THEN "interp" ELSE "fit"
    /\ read' = read \cup (START .. (END - 1))
    /\ UNCHANGED <<call, data, line, START, END, newgain, pass, gain_buffed,
                   event, energies>>

\* quick_gain 681-701: one iteration of 'for _ in range(2)'; the gain is
\* returned after the last one
QgInterpolate ==
    /\ call = "quick_gain"
    /\ pc = "interp"
    /\ newgain' = Pad(gain)
    /\ gain' = InterpPass(gain, newgain')
    /\ pass' = pass + 1
    /\ pc' = IF pass + 1 = Passes THEN "done" ELSE "interp"
    /\ UNCHANGED <<call, data, line, err, START, END, x, fitlog, gain_buffed,
                   event, energies, read>>

\* get_spectrum 764-786: pad the gain (the name gain is rebound, the caller's
\* array is not written), read the table, find the window
GsLoad ==
    /\ call = "get_spectrum"
    /\ pc = "start"
    /\ gain_buffed' = Pad(gain)
    /\ IF Len(data) = 0
       THEN /\ pc' = "error"
            /\ err' = "ValueError"
            /\ UNCHANGED <<START, END, event>>
       ELSE /\ pc' = "events"
            /\ START' = WindowStart(data)
            /\ END' = WindowEnd(data)
            /\ event' = WindowStart(data)
            /\ UNCHANGED err
    /\ gain' = CallerArray(gain, gain_buffed')
    /\ energies' = <<>>
    /\ UNCHANGED <<call, data, line, x, newgain, pass, fitlog, read>>

\* get_spectrum 787-797: one iteration of 'for event in data[START:END]'.
\* row, col, temp and mask are read from the event; then the statement
\* energy_list.append(...) looks up the name energy_list, which neither the
\* function nor the module binds, before it evaluates its argument: the
\* NameError ends the call and 'energies' is never appended to
GsEvent ==
    /\ call = "get_spectrum"
    /\ pc = "events"
    /\ event < END
    /\ read' = read \cup {event}
    /\ pc' = "error"
    /\ err' = "NameError"
    /\ UNCHANGED event
    /\ UNCHANGED <<call, data, line, START, END, x, gain, newgain, pass,
                   fitlog, gain_buffed, energies>>

Next == QgLoad \/ QgFitColumn \/ QgInterpolate \/ GsLoad \/ GsEvent

Spec == Init /\ [][Next]_vars

\* calls on tables that differ in the temperature signal only
SpecWindow == InitWindow /\ [][Next]_vars

----------------------------------------------------------------------------
(* Properties *)

\* the events with a valid temperature signal, by Python index
ValidIdx == {k \in 0 .. (Len(data) - 1) : data[k + 1].TEMP > TempMin}

SetMin(S) == CHOOSE m \in S : \A k \in S : m <= k
SetMax(S) == CHOOSE m \in S : \A k \in S : k <= m

\* the function has read a table with events and computed START and END
WindowComputed == pc # "start" /\ Len(data) > 0

\* the selected events of pixel (px, py): inside the window, not stimulated,
\* with a positive channel
SelectedAt(px, py) ==
    {k \in START .. (END - 1) :
        /\ data[k + 1].RAWX = px /\ data[k + 1].RAWY = py
        /\ data[k + 1].STIM = 0 /\ data[k + 1].PH > 0}

\* the number of selected events of pixel (px, py) with channel value c
ChannelCount(px, py, c) ==
    Cardinality({k \in SelectedAt(px, py) : data[k + 1].PH = c})

\* the fitting loop of quick_gain is over and no pass has run
AfterFitLoop == call = "quick_gain" /\ pc = "interp" /\ pass = 0

\* the gain of the pixel in row r, column c of a padded array, r and c being
\* indices of the unpadded one
PaddedAt(ng, r, c) == ng[r + 1][c + 1]

\* the sum of a padded array over the 3x3 neighbourhood of pixel (r, c)
NeighbourSum(ng, r, c) ==
    PaddedAt(ng, r - 1, c - 1) + PaddedAt(ng, r - 1, c) + PaddedAt(ng, r - 1, c + 1)
        + PaddedAt(ng, r, c - 1) + PaddedAt(ng, r, c) + PaddedAt(ng, r, c + 1)
        + PaddedAt(ng, r + 1, c - 1) + PaddedAt(ng, r + 1, c) + PaddedAt(ng, r + 1, c + 1)

\* the pixels of the grid within Chebyshev distance 1 of (r, c)
Neighbours(r, c) ==
    {q \in ((r - 1) .. (r + 1)) \X ((c - 1) .. (c + 1)) :
        q[1] \in Rows /\ q[2] \in Rows}

\* C1: when the table has events and none has a valid temperature signal,
\* the window is empty (START = END = 0), no event is read and no error is
\* raised.
C1_NoValidEventEmptyWindow ==
    (WindowComputed /\ ValidIdx = {})
        => (START = 0 /\ END = 0 /\ read = {} /\ pc # "error")

\* C2: when some event is valid, START is the index of the first valid event
\* and END is one past the index of the last; every valid event lies in
\* [START, END) and no event outside it is read by the fit or by the
\* spectrum reconstruction.
C2_WindowFirstToLastValid ==
    (WindowComputed /\ ValidIdx # {})
        => /\ START = SetMin(ValidIdx)
           /\ END = SetMax(ValidIdx) + 1
           /\ ValidIdx \subseteq START .. (END - 1)
           /\ read \subseteq START .. (END - 1)

\* the signal [false, false, true, true, true, false] has given [2, 5) and the
\* fitting loop has read exactly the events 2, 3 and 4
C2_Witness ==
    /\ call = "quick_gain"
    /\ Len(data) = 6
    /\ TempMask(data) = <<0, 0, 1, 1, 1, 0>>
    /\ START = 2
    /\ END = 5
    /\ read = {2, 3, 4}

\* C3: the fitter is never run on a pixel without a selected event, and
\* after the fitting loop and before interpolation such a pixel has gain 0.
C3_UnselectedPixelStaysZero ==
    /\ \A e \in fitlog : SelectedAt(e.x, e.y) # {}
    /\ AfterFitLoop
          => \A py \in Rows : \A px \in Rows :
                gain[py][px] # 0 => SelectedAt(px, py) # {}

\* C4: when get_spectrum has left its loop over the events of the window,
\* 'energies' holds one energy per event of the window, the sum over the
\* positive cells of the event's charge times the padded gain.
C4_OneEnergyPerEvent ==
    (call = "get_spectrum" /\ WindowComputed /\ pc \in {"done", "error"})
        => energies = [k \in 1 .. (END - START) |->
                          EventEnergy(gain_buffed, data[START + k])]

\* C5 as claimed: after the two passes a pixel whose gain is 0 has no nonzero
\* gain in its 3x3 neighbourhood of the final gain map.
C5_ZeroOnlyWithoutNeighbours ==
    (call = "quick_gain" /\ pc = "done")
        => \A r \in Rows : \A c \in Rows :
              gain[r][c] = 0
                  => \A q \in Neighbours(r, c) : gain[q[1]][q[2]] = 0

\* C5 as amended: after the two passes a pixel whose gain is 0 has a 3x3
\* neighbourhood whose gains, in the map as it was at the start of pass two
\* (newgain), sum to 0.  (Rows whose three rows of newgain are all zero have
\* such sums and are not looked at cell by cell.)
C5_ZeroOnlyWithoutNeighboursAtPassTwo ==
    (call = "quick_gain" /\ pc = "done")
        => \A r \in Rows :
              \/ newgain[r] = ZeroRow /\ newgain[r + 1] = ZeroRow
                    /\ newgain[r + 2] = ZeroRow
              \/ \A c \in Rows :
                    gain[r][c] = 0 => NeighbourSum(newgain, r, c) = 0

\* only pixel (31, 31) was fitted: (29, 29), two away, was filled by pass two
\* and (28, 28), three away, is still 0 next to it
C5_Witness ==
    /\ call = "quick_gain"
    /\ pc = "done"
    /\ \A e \in fitlog : e.kind = "cov" /\ e.x = 31 /\ e.y = 31
    /\ gain[31][31] # 0
    /\ gain[29][29] # 0
    /\ gain[28][28] = 0

\* C6: every gain is >= 0, and the gain of a pixel whose fit returned a
\* covariance matrix is > 0.
C6_GainNonNegative ==
    call = "quick_gain"
        => /\ \A r \in Rows : \A c \in Rows : gain[r][c] >= 0
           /\ \A e \in fitlog : e.kind = "cov" => gain[e.y][e.x] > 0

\* C7: the centroid of a pixel with a selected event is a channel of
\* [chan_low, chan_high) whose count, the number of the pixel's events with
\* that channel value, is the largest of that interval.
C7_CentroidIsWindowMaximum ==
    \A e \in fitlog :
        SelectedAt(e.x, e.y) # {}
            => /\ line.chan_low <= e.centroid
               /\ e.centroid < line.chan_high
               /\ \A c \in line.chan_low .. (line.chan_high - 1) :
                     ChannelCount(e.x, e.y, c)
                         <= ChannelCount(e.x, e.y, e.centroid)

\* C8: with a line whose chan_low >= chan_high, quick_gain fails before any
\* computation: it reads no event, enters no loop and returns no gain.
C8_BadLineFailsFirst ==
    (call = "quick_gain" /\ line.chan_low >= line.chan_high)
        => /\ pc \in {"start", "error"}
           /\ x = 0
           /\ read = {}

\* C9: a fit that raises or yields no covariance leaves its pixel at 0 and
\* no error ends quick_gain.
C9_FitFailureIsLocal ==
    \A e \in fitlog :
        e.kind # "cov" => (pc # "error" /\ gain[e.y][e.x] = 0)

\* C10: after the fitting loop, the pixel of every selected event has been
\* fitted once; its gain, stored at [RAWY][RAWX], is line.energy / mean if
\* the fitter returned a covariance and 0 if not; and the cell of the padded
\* gain that get_spectrum multiplies with the event's own charge is that
\* entry.
C10_GainIsEnergyOverMean ==
    AfterFitLoop
        => \A k \in START .. (END - 1) :
              LET ev == data[k + 1] IN
              (ev.STIM = 0 /\ ev.PH > 0)
                  => /\ \E e \in fitlog : e.x = ev.RAWX /\ e.y = ev.RAWY
                     /\ \A e \in fitlog :
                           (e.x = ev.RAWX /\ e.y = ev.RAWY)
                               => /\ e.kind \in {"cov", "nocov"}
                                  /\ (e.kind = "cov")
                                        <=> (gain[ev.RAWY][ev.RAWX] * e.mean
                                                = line.energy * GainScale)
                                  /\ e.kind = "nocov"
                                        => gain[ev.RAWY][ev.RAWX] = 0
                     /\ GainBlock(Pad(gain), ev)[1][1] = gain[ev.RAWY][ev.RAWX]

\* both pixels have a selected event; one fit returned a covariance, the
\* other none
C10_Witness ==
    /\ AfterFitLoop
    /\ \E e1 \in fitlog : \E e2 \in fitlog :
          /\ e1.kind = "cov" /\ SelectedAt(e1.x, e1.y) # {}
          /\ e2.kind = "nocov" /\ SelectedAt(e2.x, e2.y) # {}
          /\ gain[e1.y][e1.x] # 0
          /\ gain[e2.y][e2.x] = 0

\* a pass of quick_gain has run: gain is the map after it, newgain the padded
\* map as it was at its start
PassDone == call = "quick_gain" /\ pass >= 1

\* the number of nonzero gains of a padded array in the 3x3 neighbourhood of
\* pixel (r, c)
NonzeroNeighbours(ng, r, c) ==
    Cardinality({q \in ((r - 1) .. (r + 1)) \X ((c - 1) .. (c + 1)) :
                    PaddedAt(ng, q[1], q[2]) # 0})

\* C11: after a pass, a pixel that was 0 at its start and had k > 0 nonzero
\* gains in its padded 3x3 neighbourhood holds their sum divided by k (its
\* gain times k is the sum); one whose neighbourhood was all 0 is still 0.
\* (Where the three rows of newgain around a row are all zero, the row's
\* pixels have no nonzero neighbour and the row is compared as a whole.)
C11_FilledWithMeanOfNonzero ==
    PassDone
        => \A r \in Rows :
              IF newgain[r] = ZeroRow /\ newgain[r + 1] = ZeroRow
                    /\ newgain[r + 2] = ZeroRow
              THEN \A c \in Rows : gain[r][c] = 0
              ELSE \A c \in Rows :
                      PaddedAt(newgain, r, c) = 0
                          => LET k == NonzeroNeighbours(newgain, r, c) IN
                             IF k > 0
                             THEN gain[r][c] * k = NeighbourSum(newgain, r, c)
                             ELSE gain[r][c] = 0

\* pass one has filled pixel (30, 30) of the array, which had two nonzero
\* neighbours with the same gain and six at 0, with that gain and not with
\* two ninths of it
C11_Witness ==
    /\ call = "quick_gain"
    /\ pass = 1
    /\ PaddedAt(newgain, 30, 30) = 0
    /\ NonzeroNeighbours(newgain, 30, 30) = 2
    /\ PaddedAt(newgain, 30, 29) = GainOf(line.energy, 4)
    /\ PaddedAt(newgain, 31, 31) = GainOf(line.energy, 4)
    /\ gain[30][30] = GainOf(line.energy, 4)

\* the gain map one more pass of the same rule would make of g
FurtherPass(g) == InterpPass(g, Pad(g))

\* the fits with a covariance made by the step
NewFits == {e \in fitlog' \ fitlog : e.kind = "cov"}

\* the padded 3x3 neighbourhood of pixel (r, c) is entirely 0
AllZeroAround(ng, r, c) ==
    \A q \in ((r - 1) .. (r + 1)) \X ((c - 1) .. (c + 1)) :
        PaddedAt(ng, q[1], q[2]) = 0

\* the map g is 0 at every pixel whose neighbourhood in the padded map ng is
\* entirely 0 (a row between three zero rows of ng has only such pixels)
ZeroWhereAllZeroAround(ng, g) ==
    \A r \in Rows :
        IF ng[r] = ZeroRow /\ ng[r + 1] = ZeroRow /\ ng[r + 2] = ZeroRow
        THEN \A c \in Rows : g[r][c] = 0
        ELSE \A c \in Rows : AllZeroAround(ng, r, c) => g[r][c] = 0

\* C12: no step changes a nonzero gain; a gain that a step changes was 0 and
\* is changed either by the fitting loop, which has fitted that pixel in the
\* step, or by an interpolation pass; a pass leaves at 0 every pixel whose
\* padded 3x3 neighbourhood is entirely 0; and a third pass over the map
\* returned would change no nonzero gain and fill no pixel whose
\* neighbourhood is entirely 0.  (Rows that a step leaves as they were are
\* compared as a whole.)
C12_NonzeroGainIsFinal ==
    /\ [][/\ \A r \in Rows :
                gain'[r] # gain[r]
                    => \A c \in Rows :
                          /\ gain[r][c] # 0 => gain'[r][c] = gain[r][c]
                          /\ gain'[r][c] # gain[r][c]
                                => /\ call = "quick_gain"
                                   /\ pc \in {"fit", "interp"}
                                   /\ pc = "fit"
                                         => \E e \in NewFits :
                                               e.x = c /\ e.y = r
          /\ (pc = "interp" /\ pass' = pass + 1)
                => ZeroWhereAllZeroAround(newgain', gain')]_vars
    /\ []((call = "quick_gain" /\ pc = "done")
            => \A padded \in {Pad(gain)} : \A third \in {FurtherPass(gain)} :
                  /\ \A r \in Rows :
                        third[r] # gain[r]
                            => \A c \in Rows :
                                  gain[r][c] # 0 => third[r][c] = gain[r][c]
                  /\ ZeroWhereAllZeroAround(padded, third))

\* two pixels were fitted, to gains of opposite sign; after the fit of the
\* other pixel and the two passes each still has the gain of its fit, a
\* pixel between them was filled, and a third pass would fill further pixels
C12_Witness ==
    /\ call = "quick_gain"
    /\ pc = "done"
    /\ \E e1 \in fitlog : \E e2 \in fitlog :
          /\ e1.kind = "cov" /\ e2.kind = "cov"
          /\ e1.mean = 4 /\ e2.mean = -4
          /\ gain[e1.y][e1.x] = GainOf(line.energy, 4)
          /\ gain[e2.y][e2.x] = GainOf(line.energy, -4)
    /\ gain[30][30] # 0
    /\ gain[0][0] = 0
    /\ FurtherPass(gain) # gain

\* get_spectrum has ended, by a return or by an exception, on a table with
\* events
SpectrumCallOver ==
    call = "get_spectrum" /\ WindowComputed /\ pc \in {"done", "error"}

\* the cells of an event's 3x3 charge array with a positive entry
PositiveCells(ev) == {k \in 1 .. 9 : ev.PH_COM[k] > 0}

\* the channel value of an event with one positive entry
RawChannel(ev) == ev.PH_COM[CHOOSE k \in PositiveCells(ev) : TRUE]

\* C13: when every gain is 1 and every event of the window has exactly one
\* positive entry, get_spectrum returns, and the energies it has put into
\* the histogram are the events' raw channel values (times the gain 1), so
\* that its spectrum is the direct histogram of those values.
C13_UnitGainGivesRawChannels ==
    (/\ SpectrumCallOver
     /\ \A r \in Rows : \A c \in Rows : gain[r][c] = GainScale
     /\ \A k \in START .. (END - 1) :
           Cardinality(PositiveCells(data[k + 1])) = 1)
        => /\ pc = "done"
           /\ energies = [k \in 1 .. (END - START) |->
                             RawChannel(data[START + k]) * GainScale]

BorderPixels == {p \in Rows \X Rows : p[1] \in {0, N - 1} \/ p[2] \in {0, N - 1}}

\* a is a 34x34 array whose outermost rows and columns hold 0
PaddedGrid(a) ==
    /\ DOMAIN a = PadRows
    /\ \A r \in PadRows : DOMAIN a[r] = PadRows
    /\ a[0] = ZeroRow
    /\ a[PadN - 1] = ZeroRow
    /\ \A r \in PadRows : a[r][0] = 0 /\ a[r][PadN - 1] = 0

\* every index read for the 3x3 block of pixel (r, c) is an index of a
BlockInside(a, r, c) ==
    \A q \in BlockIndices(r, c) : q[1] \in DOMAIN a /\ q[2] \in DOMAIN a[q[1]]

\* C15: the padded copy of a pass of quick_gain and the padded gain of
\* get_spectrum are 34x34 arrays whose ring of outermost cells holds 0, and
\* every index read for the 3x3 block of a border pixel, the corners
\* included, and of the pixel of every event of get_spectrum's window lies
\* inside them.
C15_BlocksInsidePaddedGrid ==
    /\ PassDone
          => /\ PaddedGrid(newgain)
             /\ \A p \in BorderPixels : BlockInside(newgain, p[1], p[2])
    /\ (call = "get_spectrum" /\ pc # "start")
          => /\ PaddedGrid(gain_buffed)
             /\ \A p \in BorderPixels : BlockInside(gain_buffed, p[1], p[2])
             /\ \A k \in START .. (END - 1) :
                   BlockInside(gain_buffed, data[k + 1].RAWY, data[k + 1].RAWX)

\* corner pixel (31, 31) was fitted; pass one has built the blocks of the
\* border pixels next to it, which reach into the ring, and filled them, and
\* has visited corner (0, 0)
C15_Witness ==
    /\ call = "quick_gain"
    /\ pass = 1
    /\ PaddedAt(newgain, 31, 31) # 0
    /\ PaddedAt(newgain, 31, 30) = 0
    /\ gain[31][30] = PaddedAt(newgain, 31, 31)
    /\ gain[30][31] = PaddedAt(newgain, 31, 31)
    /\ gain[0][0] = 0
    /\ BlockInside(newgain, 0, 0)
    /\ BlockInside(newgain, 31, 30)

\* C16: no step of get_spectrum, up to its return or its exception, changes
\* an entry of the caller's gain array, which stays an N x N array.
C16_CallerGainUnchanged ==
    [][call = "get_spectrum"
          => /\ gain' = gain
             /\ DOMAIN gain' = Rows
             /\ \A r \in Rows : DOMAIN gain'[r] = Rows]_vars

\* get_spectrum has padded a gain map with zeros and unequal gains and has
\* ended in its loop: the caller's array is that map, the padded array holds
\* its entries one row and one column further on
C16_Witness ==
    /\ call = "get_spectrum"
    /\ pc = "error"
    /\ err = "NameError"
    /\ gain \in GainMaps
    /\ gain[0][0] = 0
    /\ gain[0][1] = 3 * GainScale
    /\ DOMAIN gain_buffed = PadRows
    /\ PaddedAt(gain_buffed, 0, 1) = gain[0][1]
    /\ gain_buffed[0][1] = 0

\* C17: the fractional FWHM error of a fit with a covariance is computed
\* from the standard deviations, the square roots of the variances
\* Var(mean) = diag[1] and Var(sigma) = diag[2] of the covariance matrix:
\* frac_err^2 * mean^4 / (8 ln 2) = Var(sigma) * mean^2 + stddev^2 * Var(mean).
C17_ErrorFromRootsOfVariances ==
    \A e \in fitlog :
        e.kind = "cov"
            => e.frac_err = e.diag[3] * e.mean * e.mean
                                + e.stddev * e.stddev * e.diag[2]

\* the pixels (row, column) whose fit returned a covariance
FittedPixels == {<<e.y, e.x>> : e \in {f \in fitlog : f.kind = "cov"}}

\* every gain written by a fit is positive
AllFitsPositive == \A e \in fitlog : e.kind = "cov" => e.mean > 0

Abs(n) == IF n < 0 THEN -n ELSE n

\* pixel (r, c) is at Chebyshev distance d or less from a fitted pixel
WithinDistance(r, c, d) ==
    \E f \in FittedPixels : Abs(r - f[1]) <= d /\ Abs(c - f[2]) <= d

\* the rows, or columns, in increasing and in decreasing order
Ascending == [k \in 1 .. N |-> k - 1]
Descending == [k \in 1 .. N |-> N - k]

\* the unpadded part of a padded array
Unpadded(ng) == [r \in Rows |-> [c \in Rows |-> ng[r + 1][c + 1]]]

\* the columns of a padded array with a nonzero entry
NonzeroColumns(ng) ==
    LET rows == {r \in PadRows : ng[r] # ZeroRow}
    IN  {c \in PadRows : \E r \in rows : ng[r][c] # 0}

\* the rows and the columns, in the given order, of the pixels whose block of
\* the padded array ng may hold a nonzero entry: the block of any other pixel
\* is all zero and a visit of it writes nothing
RowsToVisit(ng, order) ==
    SelectSeq(order, LAMBDA r : ng[r] # ZeroRow \/ ng[r + 1] # ZeroRow
                                   \/ ng[r + 2] # ZeroRow)

ColsToVisit(ng, order) ==
    LET nz == NonzeroColumns(ng)
    IN  SelectSeq(order, LAMBDA c : c \in nz \/ c + 1 \in nz \/ c + 2 \in nz)

\* the map g with the pixels of 'empty' visited row by row in the given order
VisitedIn(g, ng, order) ==
    VisitRows(g, ng, RowsToVisit(ng, order), ColsToVisit(ng, order), 1)

\* a row of np.zeros((32, 32))
ZeroGainRow == [c \in Rows |-> 0]

\* C18: a step that runs a pass is taken with the fitting loop over and
\* without an exception, it runs the next pass and no other on a padded copy
\* of the gain of that moment, and no fit is made from the first pass on;
\* the map after a pass is the map at its start with the pixels of 'empty'
\* visited one by one, each visit reading the values of the start of the
\* pass, in the order of the code and in the opposite order alike; and when
\* all fitted gains are positive, the pixels filled by pass one are those at
\* Chebyshev distance exactly 1 from a fitted pixel, those filled by pass
\* two are those at distance exactly 2, and a pixel at distance 3 or more is
\* 0 on return.  (A row farther than the number of the pass from the row of
\* every fitted pixel has no pixel within that distance and is compared as a
\* whole.)
C18_PassFillsNextRing ==
    /\ [][/\ pass' # pass
                => /\ pc = "interp" /\ x = N /\ err = ""
                   /\ pass' = pass + 1
                   /\ newgain' = Pad(gain)
          /\ (pass >= 1 \/ pass' >= 1) => fitlog' = fitlog]_vars
    /\ [](PassDone
            => \A start \in {Unpadded(newgain)} :
                  /\ gain = VisitedIn(start, newgain, Ascending)
                  /\ gain = VisitedIn(start, newgain, Descending))
    /\ []((PassDone /\ AllFitsPositive)
            => \A r \in Rows :
                  IF \A f \in FittedPixels : Abs(r - f[1]) > pass
                  THEN gain[r] = ZeroGainRow
                  ELSE \A c \in Rows :
                          /\ (PaddedAt(newgain, r, c) = 0 /\ gain[r][c] # 0)
                                <=> (/\ WithinDistance(r, c, pass)
                                     /\ ~WithinDistance(r, c, pass - 1))
                          /\ ~WithinDistance(r, c, pass) => gain[r][c] = 0)

\* pixels (30, 29) and (31, 31) of the array were fitted to positive gains:
\* (29, 30), at distance 1, was filled by pass one, (28, 27), at distance 2,
\* by pass two, and (27, 26), at distance 3, is 0 on return
C18_Witness ==
    /\ call = "quick_gain"
    /\ pc = "done"
    /\ AllFitsPositive
    /\ FittedPixels = {<<30, 29>>, <<31, 31>>}
    /\ PaddedAt(newgain, 29, 30) # 0
    /\ PaddedAt(newgain, 28, 27) = 0
    /\ gain[28][27] # 0
    /\ gain[27][26] = 0
====
